---- MODULE Spec2Model ----
(***************************************************************************)
(* Leaf operators of the logical plan: InputData (input_data_operator.py)  *)
(* and AbstractFrom (from_operators.py), with their lazily computed and    *)
(* cached aggregate output metadata.                                       *)
(*                                                                         *)
(* One operator instance is modelled: it is constructed as an InputData or *)
(* as an AbstractFrom and then driven through its public methods, either   *)
(* call by call (Spec) or by threads whose calls interleave at the single  *)
(* reads and writes of the instance's attributes (SpecConc).               *)
(***************************************************************************)
EXTENDS Integers, Sequences, FiniteSets, TLC

(***************************************************************************)
(* Bounds.                                                                 *)
(***************************************************************************)
\* Longest bundle list handed to an InputData.
MaxBundles == 2
\* Longest block list and longest metadata list handed to an AbstractFrom.
MaxBlocks == 3
\* aggregate_output_metadata() calls followed between two invalidations.
MaxReads == 3
\* Threads reading the aggregate of one shared instance.
NReaders == 2

(***************************************************************************)
(* Optional[T]: None is the empty tuple, a present value x is <<x>>, so    *)
(* that an unknown count is never the same value as the count 0 and an     *)
(* absent list is never the same value as the empty list.                  *)
(***************************************************************************)
None == <<>>
Some(x) == <<x>>
Get(o) == o[1]

(***************************************************************************)
(* BlockMetadata and RefBundle (ray.data.block, execution.interfaces).     *)
(***************************************************************************)
BlockMetadata(nr, sb, sc, files, stats) ==
    [num_rows |-> nr, size_bytes |-> sb, schema |-> sc,
     input_files |-> files, exec_stats |-> stats]

RefBundle(blocks, owns) == [blocks |-> blocks, owns_blocks |-> owns]

\* RefBundle.metadata: the metadata of the bundle's blocks, in block order.
RefBundle_metadata(b) == [i \in 1..Len(b.blocks) |-> b.blocks[i][2]]

RECURSIVE SumSeq(_)
\* Python's sum() over a list of integers.
SumSeq(s) == IF s = <<>> THEN 0 ELSE Head(s) + SumSeq(Tail(s))

\* RefBundle.num_rows(): the blocks' row counts added up, None as soon as one
\* of them is unknown; a bundle without blocks has 0 rows.
RefBundle_num_rows(b) ==
    LET md == RefBundle_metadata(b) IN
    IF \E i \in 1..Len(md) : md[i].num_rows = None
    THEN None
    ELSE Some(SumSeq([i \in 1..Len(md) |-> Get(md[i].num_rows)]))

\* unify_block_metadata_schema: an external pure function of the ordered
\* metadata sequence, kept uninterpreted (the term itself is its value).
unify_block_metadata_schema(metadata) == <<"unified", metadata>>

(***************************************************************************)
(* Input domains.                                                          *)
(***************************************************************************)
mKnown    == BlockMetadata(Some(10), Some(100), Some("s1"), None, None)
mNoSize   == BlockMetadata(Some(5), None, Some("s2"), None, None)
mNoRows   == BlockMetadata(None, Some(50), None, None, None)
mZero     == BlockMetadata(Some(0), Some(0), None, None, None)
Metas     == {mKnown, mNoSize, mNoRows, mZero}

\* Block references are opaque handles: the i-th block of a list is handle i.
RefLists  == {[i \in 1..n |-> i] : n \in 0..MaxBlocks}
MetaLists == UNION {[1..n -> Metas] : n \in 0..MaxBlocks}

\* Bundles handed to an InputData: no block, one block, two blocks; row
\* counts 0, 10, unknown, 5; sizes 0, 100, 150, unknown.
bEmpty    == RefBundle(<<>>, TRUE)
bKnown    == RefBundle(<< <<1, mKnown>> >>, TRUE)
bNoRows   == RefBundle(<< <<2, mKnown>>, <<3, mNoRows>> >>, FALSE)
bNoSize   == RefBundle(<< <<4, mNoSize>> >>, TRUE)
Bundles   == {bEmpty, bKnown, bNoRows, bNoSize}
BundleLists == UNION {[1..n -> Bundles] : n \in 0..MaxBundles}
Factories == {"f1", "f2"}

OptBundleLists == {None} \cup {Some(l) : l \in BundleLists}
OptFactories   == {None} \cup {Some(f) : f \in Factories}

(***************************************************************************)
(* State.                                                                  *)
(***************************************************************************)
VARIABLES
    cls,                   \* class of the instance: "none" before construction
    input_data,            \* InputData.input_data / AbstractFrom._input_data
    input_data_factory,    \* InputData.input_data_factory
    output_metadata_cache, \* self._output_metadata_cache
    num_outputs,           \* LogicalOperator's declared output count
    last,                  \* the last completed call: op, args, ret, exc
    computeCalls,          \* _compute_output_metadata calls since the last invalidation
    readsInGen,            \* aggregate_output_metadata calls since the last invalidation
    everData,              \* the instance has held a bundle list at some time
    droppedCache,          \* the last invalidation discarded a populated cache
    rpc,                   \* per reader thread: the line it executes next
    rloc,                  \* per reader thread: the values it has computed so far
    wpc,                   \* the updating thread: the line it executes next
    warg,                  \* the updating thread: its call, until it returns
    lastQuiet              \* the call in last was a read that began with no update
                           \* running, and no update has taken a step since it began

objVars == <<cls, input_data, input_data_factory, output_metadata_cache, num_outputs>>
histVars == <<last, computeCalls, readsInGen, everData, droppedCache>>
thrVars == <<rpc, rloc, wpc, warg, lastQuiet>>
vars == <<objVars, histVars, thrVars>>

\* A completed call: what it returned, or the exception it raised.
Call(op, args, ret) == [op |-> op, args |-> args, ret |-> ret, exc |-> None]
Raised(op, args, e) == [op |-> op, args |-> args, ret |-> None, exc |-> Some(e)]

Readers == 1..NReaders

\* A reader's locals: the three fields of the record under construction, and
\* whether its call has so far run without any step of an update.
NoLocals == [nr |-> None, sb |-> None, sc |-> None, quiet |-> FALSE]

Init ==
    /\ cls = "none"
    /\ input_data = None
    /\ input_data_factory = None
    /\ output_metadata_cache = None
    /\ num_outputs = None
    /\ last = Call("none", <<>>, None)
    /\ computeCalls = 0
    /\ readsInGen = 0
    /\ everData = FALSE
    /\ droppedCache = FALSE
    /\ rpc = [r \in Readers |-> "L40"]
    /\ rloc = [r \in Readers |-> NoLocals]
    /\ wpc = "idle"
    /\ warg = None
    /\ lastQuiet = FALSE

(***************************************************************************)
(* InputData: the aggregation (input_data_operator.py).  The operators     *)
(* take the list self.input_data holds; the assert on it is modelled where *)
(* it can fire, in the threads' steps.                                     *)
(***************************************************************************)
\* all(bundle.num_rows() is not None for bundle in self.input_data)
InputData_num_rows_all(data) ==
    \A i \in 1..Len(data) : RefBundle_num_rows(data[i]) # None

\* sum(bundle.num_rows() for bundle in self.input_data)
InputData_num_rows_sum(data) ==
    SumSeq([i \in 1..Len(data) |-> Get(RefBundle_num_rows(data[i]))])

\* Faulty variant of _num_rows: bundles with an unknown count are left out of
\* the sum instead of making it unknown.
InputData_num_rows_SkipsUnknown(data) ==
    LET known == SelectSeq([i \in 1..Len(data) |-> RefBundle_num_rows(data[i])],
                           LAMBDA r : r # None) IN
    Some(SumSeq([i \in 1..Len(known) |-> Get(known[i])]))

InputData_num_rows(data) ==
    IF InputData_num_rows_all(data)
    THEN Some(InputData_num_rows_sum(data))
    ELSE None

RECURSIVE Flatten(_)
\* [m for bundle in data for m in bundle.metadata]
Flatten(data) ==
    IF data = <<>> THEN <<>>
    ELSE RefBundle_metadata(Head(data)) \o Flatten(Tail(data))

\* Faulty variant of _size_bytes: only the first block of each bundle counts.
InputData_size_bytes_FirstBlockOnly(data) ==
    LET metadata == [i \in 1..Len(data) |-> RefBundle_metadata(data[i])]
        firsts == SelectSeq(metadata, LAMBDA md : md # <<>>) IN
    IF \A i \in 1..Len(firsts) : firsts[i][1].size_bytes # None
    THEN Some(SumSeq([i \in 1..Len(firsts) |-> Get(firsts[i][1].size_bytes)]))
    ELSE None

InputData_size_bytes(data) ==
    LET metadata == Flatten(data) IN
    IF \A i \in 1..Len(metadata) : metadata[i].size_bytes # None
    THEN Some(SumSeq([i \in 1..Len(metadata) |-> Get(metadata[i].size_bytes)]))
    ELSE None

\* Faulty variant of _schema: only the first block of each bundle reaches
\* the unifier.
InputData_schema_BundleHeads(data) ==
    LET withBlocks == SelectSeq(data, LAMBDA b : b.blocks # <<>>)
        metadata == [i \in 1..Len(withBlocks) |-> withBlocks[i].blocks[1][2]]
    IN unify_block_metadata_schema(metadata)

InputData_schema(data) ==
    LET metadata == Flatten(data) IN unify_block_metadata_schema(metadata)

InputData_compute_output_metadata(data) ==
    BlockMetadata(InputData_num_rows(data), InputData_size_bytes(data),
                  InputData_schema(data), None, None)

\* BlockMetadata(None, None, None, None, None)
AllUnknown == BlockMetadata(None, None, None, None, None)

(***************************************************************************)
(* InputData: constructor and methods, one action per call.                *)
(***************************************************************************)
\* Faulty variant of the constructor: asserts only that an argument is given.
InputData__init__AtLeastOne(d, f) ==
    /\ cls = "none"
    /\ IF (d # None) \/ (f # None)
       THEN /\ cls' = "InputData"
            /\ num_outputs' = (IF d # None THEN Some(Len(Get(d))) ELSE None)
            /\ input_data' = d
            /\ input_data_factory' = f
            /\ output_metadata_cache' = None
            /\ last' = Call("InputData.__init__", <<d, f>>, None)
            /\ everData' = (d # None)
            /\ computeCalls' = 0
            /\ readsInGen' = 0
            /\ droppedCache' = FALSE
       ELSE /\ last' = Raised("InputData.__init__", <<d, f>>, "AssertionError")
            /\ UNCHANGED <<objVars, computeCalls, readsInGen, everData, droppedCache>>

InputData__init__(d, f) ==
    /\ cls = "none"
    /\ IF (d = None) # (f = None)
       THEN /\ cls' = "InputData"
            /\ num_outputs' = (IF d # None THEN Some(Len(Get(d))) ELSE None)
            /\ input_data' = d
            /\ input_data_factory' = f
            /\ output_metadata_cache' = None
            /\ last' = Call("InputData.__init__", <<d, f>>, None)
            /\ everData' = (d # None)
            /\ computeCalls' = 0
            /\ readsInGen' = 0
            /\ droppedCache' = FALSE
       ELSE /\ last' = Raised("InputData.__init__", <<d, f>>, "AssertionError")
            /\ UNCHANGED <<objVars, computeCalls, readsInGen, everData, droppedCache>>

\* Faulty variant of output_data: the list is tested for truth, so an empty
\* list is reported as None.
InputData_output_data_EmptyAsNone ==
    /\ cls = "InputData"
    /\ last' = Call("output_data", <<>>,
                    IF input_data = None \/ input_data = Some(<<>>)
                    THEN None ELSE input_data)
    /\ UNCHANGED <<objVars, computeCalls, readsInGen, everData, droppedCache>>

\* Faulty variant of output_data: the aggregate is computed and cached on
\* the way.
InputData_output_data_FillsCache ==
    /\ cls = "InputData"
    /\ last' = Call("output_data", <<>>,
                    IF input_data = None THEN None ELSE input_data)
    /\ output_metadata_cache' =
          (IF input_data # None /\ output_metadata_cache = None
           THEN Some(InputData_compute_output_metadata(Get(input_data)))
           ELSE output_metadata_cache)
    /\ UNCHANGED <<cls, input_data, input_data_factory, num_outputs,
                   computeCalls, readsInGen, everData, droppedCache>>

InputData_output_data ==
    /\ cls = "InputData"
    /\ last' = Call("output_data", <<>>,
                    IF input_data = None THEN None ELSE input_data)
    /\ UNCHANGED <<objVars, computeCalls, readsInGen, everData, droppedCache>>

\* Faulty variant of aggregate_output_metadata: no early return for an absent
\* list, which is aggregated like the empty list.
InputData_aggregate_output_metadata_NoneAsEmpty ==
    /\ cls = "InputData"
    /\ readsInGen < MaxReads
    /\ readsInGen' = readsInGen + 1
    /\ IF output_metadata_cache = None
       THEN /\ output_metadata_cache' =
                   Some(InputData_compute_output_metadata(
                            IF input_data = None THEN <<>> ELSE Get(input_data)))
            /\ computeCalls' = computeCalls + 1
            /\ last' = Call("aggregate_output_metadata", <<>>, output_metadata_cache')
       ELSE /\ last' = Call("aggregate_output_metadata", <<>>, output_metadata_cache)
            /\ UNCHANGED <<output_metadata_cache, computeCalls>>
    /\ UNCHANGED <<cls, input_data, input_data_factory, num_outputs, everData,
                   droppedCache>>

InputData_aggregate_output_metadata ==
    /\ cls = "InputData"
    /\ readsInGen < MaxReads
    /\ readsInGen' = readsInGen + 1
    /\ IF input_data = None
       THEN /\ last' = Call("aggregate_output_metadata", <<>>, Some(AllUnknown))
            /\ UNCHANGED <<output_metadata_cache, computeCalls>>
       ELSE IF output_metadata_cache = None
            THEN /\ output_metadata_cache' =
                        Some(InputData_compute_output_metadata(Get(input_data)))
                 /\ computeCalls' = computeCalls + 1
                 /\ last' = Call("aggregate_output_metadata", <<>>,
                                 output_metadata_cache')
            ELSE /\ last' = Call("aggregate_output_metadata", <<>>,
                                 output_metadata_cache)
                 /\ UNCHANGED <<output_metadata_cache, computeCalls>>
    /\ UNCHANGED <<cls, input_data, input_data_factory, num_outputs, everData,
                   droppedCache>>

\* self._output_metadata_cache = None: a new cache generation starts.
ClearCache ==
    /\ output_metadata_cache' = None
    /\ computeCalls' = 0
    /\ readsInGen' = 0
    /\ droppedCache' = (output_metadata_cache # None)

InputData_invalidate_output_metadata_cache ==
    /\ cls = "InputData"
    /\ ClearCache
    /\ last' = Call("invalidate_output_metadata_cache", <<>>, None)
    /\ UNCHANGED <<cls, input_data, input_data_factory, num_outputs, everData>>

\* Faulty variant of update_input_data: the cache is invalidated only when
\* the new list is not None, as update_input_data_factory does.
InputData_update_input_data_InvalidatesIfData(new_input_data) ==
    /\ cls = "InputData"
    /\ input_data' = new_input_data
    /\ IF new_input_data # None
       THEN ClearCache
       ELSE UNCHANGED <<output_metadata_cache, computeCalls, readsInGen, droppedCache>>
    /\ last' = Call("update_input_data", <<new_input_data>>, None)
    /\ everData' = (everData \/ new_input_data # None)
    /\ UNCHANGED <<cls, input_data_factory, num_outputs>>

\* Faulty variant of update_input_data: the list is replaced and the cache
\* is kept.
InputData_update_input_data_KeepsCache(new_input_data) ==
    /\ cls = "InputData"
    /\ input_data' = new_input_data
    /\ last' = Call("update_input_data", <<new_input_data>>, None)
    /\ everData' = (everData \/ new_input_data # None)
    /\ UNCHANGED <<cls, input_data_factory, num_outputs, output_metadata_cache,
                   computeCalls, readsInGen, droppedCache>>

InputData_update_input_data(new_input_data) ==
    /\ cls = "InputData"
    /\ input_data' = new_input_data
    /\ ClearCache
    /\ last' = Call("update_input_data", <<new_input_data>>, None)
    /\ everData' = (everData \/ new_input_data # None)
    /\ UNCHANGED <<cls, input_data_factory, num_outputs>>

\* Faulty variant of update_input_data_factory: the factory is replaced and
\* the cache is never invalidated.
InputData_update_input_data_factory_NeverInvalidates(new_factory) ==
    /\ cls = "InputData"
    /\ input_data_factory' = new_factory
    /\ last' = Call("update_input_data_factory", <<new_factory>>, None)
    /\ UNCHANGED <<cls, input_data, num_outputs, everData, output_metadata_cache,
                   computeCalls, readsInGen, droppedCache>>

InputData_update_input_data_factory(new_factory) ==
    /\ cls = "InputData"
    /\ input_data_factory' = new_factory
    /\ IF input_data # None
       THEN ClearCache
       ELSE UNCHANGED <<output_metadata_cache, computeCalls, readsInGen, droppedCache>>
    /\ last' = Call("update_input_data_factory", <<new_factory>>, None)
    /\ UNCHANGED <<cls, input_data, num_outputs, everData>>

(***************************************************************************)
(* AbstractFrom: the aggregation (from_operators.py).                      *)
(***************************************************************************)
AbstractFrom_num_rows(data) ==
    IF \A i \in 1..Len(data) : RefBundle_num_rows(data[i]) # None
    THEN Some(SumSeq([i \in 1..Len(data) |-> Get(RefBundle_num_rows(data[i]))]))
    ELSE None

AbstractFrom_size_bytes(data) ==
    LET metadata == Flatten(data) IN
    IF \A i \in 1..Len(metadata) : metadata[i].size_bytes # None
    THEN Some(SumSeq([i \in 1..Len(metadata) |-> Get(metadata[i].size_bytes)]))
    ELSE None

AbstractFrom_schema(data) ==
    LET metadata == Flatten(data) IN unify_block_metadata_schema(metadata)

AbstractFrom_compute_output_metadata(data) ==
    BlockMetadata(AbstractFrom_num_rows(data), AbstractFrom_size_bytes(data),
                  AbstractFrom_schema(data), None, None)

(***************************************************************************)
(* AbstractFrom: constructor and methods.                                  *)
(***************************************************************************)
\* Faulty variant of the constructor: no length check, the two lists are
\* paired up to the shorter one (zip).
AbstractFrom__init__Zip(input_blocks, input_metadata) ==
    /\ cls = "none"
    /\ LET n == IF Len(input_blocks) < Len(input_metadata)
                THEN Len(input_blocks) ELSE Len(input_metadata) IN
       /\ cls' = "AbstractFrom"
       /\ num_outputs' = Some(Len(input_blocks))
       /\ input_data' =
            Some([i \in 1..n |->
                    RefBundle(<< <<input_blocks[i], input_metadata[i]>> >>, FALSE)])
       /\ input_data_factory' = None
       /\ output_metadata_cache' = None
       /\ last' = Call("AbstractFrom.__init__", <<input_blocks, input_metadata>>, None)
       /\ everData' = TRUE
       /\ computeCalls' = 0
       /\ readsInGen' = 0
       /\ droppedCache' = FALSE

\* Faulty variant of the constructor: the metadata list is paired with the
\* block list back to front.
AbstractFrom__init__Reversed(input_blocks, input_metadata) ==
    /\ cls = "none"
    /\ IF Len(input_blocks) = Len(input_metadata)
       THEN /\ cls' = "AbstractFrom"
            /\ num_outputs' = Some(Len(input_blocks))
            /\ input_data' =
                 Some([i \in 1..Len(input_blocks) |->
                         RefBundle(<< <<input_blocks[i],
                                        input_metadata[Len(input_blocks) + 1 - i]>> >>,
                                   FALSE)])
            /\ input_data_factory' = None
            /\ output_metadata_cache' = None
            /\ last' = Call("AbstractFrom.__init__",
                            <<input_blocks, input_metadata>>, None)
            /\ everData' = TRUE
            /\ computeCalls' = 0
            /\ readsInGen' = 0
            /\ droppedCache' = FALSE
       ELSE /\ last' = Raised("AbstractFrom.__init__",
                              <<input_blocks, input_metadata>>, "AssertionError")
            /\ UNCHANGED <<objVars, computeCalls, readsInGen, everData, droppedCache>>

AbstractFrom__init__(input_blocks, input_metadata) ==
    /\ cls = "none"
    /\ IF Len(input_blocks) = Len(input_metadata)
       THEN /\ cls' = "AbstractFrom"
            /\ num_outputs' = Some(Len(input_blocks))
            /\ input_data' =
                 Some([i \in 1..Len(input_blocks) |->
                         RefBundle(<< <<input_blocks[i], input_metadata[i]>> >>, FALSE)])
            /\ input_data_factory' = None
            /\ output_metadata_cache' = None
            /\ last' = Call("AbstractFrom.__init__",
                            <<input_blocks, input_metadata>>, None)
            /\ everData' = TRUE
            /\ computeCalls' = 0
            /\ readsInGen' = 0
            /\ droppedCache' = FALSE
       ELSE /\ last' = Raised("AbstractFrom.__init__",
                              <<input_blocks, input_metadata>>, "AssertionError")
            /\ UNCHANGED <<objVars, computeCalls, readsInGen, everData, droppedCache>>

AbstractFrom_output_data ==
    /\ cls = "AbstractFrom"
    /\ last' = Call("output_data", <<>>, input_data)
    /\ UNCHANGED <<objVars, computeCalls, readsInGen, everData, droppedCache>>

\* Faulty variant of aggregate_output_metadata: the computed value is
\* returned and never stored.
AbstractFrom_aggregate_output_metadata_NoStore ==
    /\ cls = "AbstractFrom"
    /\ readsInGen < MaxReads
    /\ readsInGen' = readsInGen + 1
    /\ computeCalls' = computeCalls + 1
    /\ last' = Call("aggregate_output_metadata", <<>>,
                    Some(AbstractFrom_compute_output_metadata(Get(input_data))))
    /\ UNCHANGED <<objVars, everData, droppedCache>>

AbstractFrom_aggregate_output_metadata ==
    /\ cls = "AbstractFrom"
    /\ readsInGen < MaxReads
    /\ readsInGen' = readsInGen + 1
    /\ IF output_metadata_cache = None
       THEN /\ output_metadata_cache' =
                   Some(AbstractFrom_compute_output_metadata(Get(input_data)))
            /\ computeCalls' = computeCalls + 1
            /\ last' = Call("aggregate_output_metadata", <<>>, output_metadata_cache')
       ELSE /\ last' = Call("aggregate_output_metadata", <<>>, output_metadata_cache)
            /\ UNCHANGED <<output_metadata_cache, computeCalls>>
    /\ UNCHANGED <<cls, input_data, input_data_factory, num_outputs, everData,
                   droppedCache>>

\* Faulty variant of invalidate_output_metadata_cache: the bundles are
\* dropped together with the cache.
AbstractFrom_invalidate_output_metadata_cache_DropsBundles ==
    /\ cls = "AbstractFrom"
    /\ ClearCache
    /\ input_data' = Some(<<>>)
    /\ last' = Call("invalidate_output_metadata_cache", <<>>, None)
    /\ UNCHANGED <<cls, input_data_factory, num_outputs, everData>>

AbstractFrom_invalidate_output_metadata_cache ==
    /\ cls = "AbstractFrom"
    /\ ClearCache
    /\ last' = Call("invalidate_output_metadata_cache", <<>>, None)
    /\ UNCHANGED <<cls, input_data, input_data_factory, num_outputs, everData>>

(***************************************************************************)
(* Sequential use: one call at a time, no thread inside a call.            *)
(***************************************************************************)
Next ==
    \/ \E d \in OptBundleLists, f \in OptFactories :
          InputData__init__(d, f) /\ UNCHANGED thrVars
    \/ InputData_output_data /\ UNCHANGED thrVars
    \/ InputData_aggregate_output_metadata /\ UNCHANGED thrVars
    \/ InputData_invalidate_output_metadata_cache /\ UNCHANGED thrVars
    \/ \E d \in OptBundleLists : InputData_update_input_data(d) /\ UNCHANGED thrVars
    \/ \E f \in OptFactories :
          InputData_update_input_data_factory(f) /\ UNCHANGED thrVars
    \/ \E b \in RefLists, m \in MetaLists :
          AbstractFrom__init__(b, m) /\ UNCHANGED thrVars
    \/ AbstractFrom_output_data /\ UNCHANGED thrVars
    \/ AbstractFrom_aggregate_output_metadata /\ UNCHANGED thrVars
    \/ AbstractFrom_invalidate_output_metadata_cache /\ UNCHANGED thrVars

Spec == Init /\ [][Next]_vars

(***************************************************************************)
(* Threads on one shared InputData.  A call is cut at every read and write *)
(* of self.input_data and self._output_metadata_cache; the label of a step *)
(* is the source line of that access.  Reader threads call                 *)
(* aggregate_output_metadata() over and over; one more thread calls the    *)
(* mutators.  An exception ends the call it is raised in.  The counters of  *)
(* sequential use (seqHist) are not advanced by the threads.               *)
(***************************************************************************)
\* Lists the updating thread installs.
ConcLists == {<<bKnown>>, <<bKnown, bKnown>>, <<bNoRows>>}
ConcInputs == {None} \cup {Some(l) : l \in ConcLists}

\* Reader threads running beside the updating thread.
ConcReaders == {1}

seqHist == <<computeCalls, readsInGen, everData, droppedCache>>

Goto(r, line) == rpc' = [rpc EXCEPT ![r] = line]

\* The call of reader r returns ret: back to the call's first line.
Returns(r, ret) ==
    /\ last' = Call("aggregate_output_metadata", <<r>>, ret)
    /\ lastQuiet' = rloc[r].quiet
    /\ rpc' = [rpc EXCEPT ![r] = "L40"]
    /\ rloc' = [rloc EXCEPT ![r] = NoLocals]

\* The call of reader r ends with exception e.
Raises(r, e) ==
    /\ last' = Raised("aggregate_output_metadata", <<r>>, e)
    /\ lastQuiet' = rloc[r].quiet
    /\ rpc' = [rpc EXCEPT ![r] = "L40"]
    /\ rloc' = [rloc EXCEPT ![r] = NoLocals]

\* line 40: if self.input_data is None: return BlockMetadata(None, ...)
Reader_L40(r) ==
    /\ cls = "InputData"
    /\ rpc[r] = "L40"
    /\ IF input_data = None
       THEN /\ last' = Call("aggregate_output_metadata", <<r>>, Some(AllUnknown))
            /\ lastQuiet' = (wpc = "idle")
            /\ UNCHANGED <<rpc, rloc>>
       ELSE /\ Goto(r, "L44")
            /\ rloc' = [rloc EXCEPT ![r].quiet = (wpc = "idle")]
            /\ UNCHANGED <<last, lastQuiet>>
    /\ UNCHANGED <<objVars, seqHist, wpc, warg>>

\* Faulty variant of line 44: on a miss an empty record is published in the
\* cache before the fields are computed.
Reader_L44_PublishesPlaceholder(r) ==
    /\ rpc[r] = "L44"
    /\ Goto(r, IF output_metadata_cache = None THEN "L59" ELSE "L46")
    /\ output_metadata_cache' =
          (IF output_metadata_cache = None THEN Some(AllUnknown)
           ELSE output_metadata_cache)
    /\ UNCHANGED <<cls, input_data, input_data_factory, num_outputs, histVars,
                   rloc, wpc, warg, lastQuiet>>

\* line 44: if self._output_metadata_cache is None
Reader_L44(r) ==
    /\ rpc[r] = "L44"
    /\ Goto(r, IF output_metadata_cache = None THEN "L59" ELSE "L46")
    /\ UNCHANGED <<objVars, histVars, rloc, wpc, warg, lastQuiet>>

\* lines 59, 66, 74: assert self.input_data is not None
Reader_assert(r, line, next) ==
    /\ rpc[r] = line
    /\ IF input_data = None
       THEN Raises(r, "AssertionError")
       ELSE Goto(r, next) /\ UNCHANGED <<last, lastQuiet, rloc>>
    /\ UNCHANGED <<objVars, seqHist, wpc, warg>>

\* line 60: all(bundle.num_rows() is not None for bundle in self.input_data)
Reader_L60(r) ==
    /\ rpc[r] = "L60"
    /\ IF input_data = None
       THEN Raises(r, "TypeError")
       ELSE /\ IF InputData_num_rows_all(Get(input_data))
               THEN Goto(r, "L61") /\ UNCHANGED rloc
               ELSE Goto(r, "L66") /\ rloc' = [rloc EXCEPT ![r].nr = None]
            /\ UNCHANGED <<last, lastQuiet>>
    /\ UNCHANGED <<objVars, seqHist, wpc, warg>>

\* line 61: return sum(bundle.num_rows() for bundle in self.input_data)
Reader_L61(r) ==
    /\ rpc[r] = "L61"
    /\ IF input_data = None \/ ~InputData_num_rows_all(Get(input_data))
       THEN Raises(r, "TypeError")
       ELSE /\ Goto(r, "L66")
            /\ rloc' = [rloc EXCEPT ![r].nr = Some(InputData_num_rows_sum(Get(input_data)))]
            /\ UNCHANGED <<last, lastQuiet>>
    /\ UNCHANGED <<objVars, seqHist, wpc, warg>>

\* lines 67-71: metadata = [m for bundle in self.input_data ...], then the sum
Reader_L67(r) ==
    /\ rpc[r] = "L67"
    /\ IF input_data = None
       THEN Raises(r, "TypeError")
       ELSE /\ Goto(r, "L74")
            /\ rloc' = [rloc EXCEPT ![r].sb = InputData_size_bytes(Get(input_data))]
            /\ UNCHANGED <<last, lastQuiet>>
    /\ UNCHANGED <<objVars, seqHist, wpc, warg>>

\* lines 75-76: metadata = [m for bundle in self.input_data ...], then unify
Reader_L75(r) ==
    /\ rpc[r] = "L75"
    /\ IF input_data = None
       THEN Raises(r, "TypeError")
       ELSE /\ Goto(r, "L45")
            /\ rloc' = [rloc EXCEPT ![r].sc = InputData_schema(Get(input_data))]
            /\ UNCHANGED <<last, lastQuiet>>
    /\ UNCHANGED <<objVars, seqHist, wpc, warg>>

\* line 45: self._output_metadata_cache = <the record of lines 50-56>
Reader_L45(r) ==
    /\ rpc[r] = "L45"
    /\ output_metadata_cache' =
          Some(BlockMetadata(rloc[r].nr, rloc[r].sb, rloc[r].sc, None, None))
    /\ Goto(r, "L46")
    /\ UNCHANGED <<cls, input_data, input_data_factory, num_outputs, histVars,
                   rloc, wpc, warg, lastQuiet>>

\* line 46: return self._output_metadata_cache
Reader_L46(r) ==
    /\ rpc[r] = "L46"
    /\ Returns(r, output_metadata_cache)
    /\ UNCHANGED <<objVars, seqHist, wpc, warg>>

\* A step of the updating thread: no call in flight is undisturbed any more.
Disturb ==
    /\ rloc' = [r \in Readers |-> [rloc[r] EXCEPT !.quiet = FALSE]]
    /\ lastQuiet' = FALSE

\* update_input_data, line 88: self.input_data = new_input_data
Writer_L88(new_input_data) ==
    /\ cls = "InputData"
    /\ wpc = "idle"
    /\ input_data' = new_input_data
    /\ wpc' = "L89"
    /\ warg' = Some(Call("update_input_data", <<new_input_data>>, None))
    /\ Disturb
    /\ UNCHANGED <<cls, input_data_factory, output_metadata_cache, num_outputs,
                   histVars, rpc>>

\* update_input_data_factory, line 95: self.input_data_factory = new_factory
Writer_L95(new_factory) ==
    /\ cls = "InputData"
    /\ wpc = "idle"
    /\ input_data_factory' = new_factory
    /\ wpc' = "L96"
    /\ warg' = Some(Call("update_input_data_factory", <<new_factory>>, None))
    /\ Disturb
    /\ UNCHANGED <<cls, input_data, output_metadata_cache, num_outputs,
                   histVars, rpc>>

\* update_input_data_factory, line 96: if self.input_data is not None
Writer_L96 ==
    /\ wpc = "L96"
    /\ IF input_data # None
       THEN wpc' = "L97" /\ UNCHANGED <<warg, last>>
       ELSE wpc' = "idle" /\ warg' = None /\ last' = Get(warg)
    /\ Disturb
    /\ UNCHANGED <<objVars, seqHist, rpc>>

\* lines 89 and 97: self.invalidate_output_metadata_cache(), and return
Writer_invalidate ==
    /\ wpc \in {"L89", "L97"}
    /\ output_metadata_cache' = None
    /\ wpc' = "idle"
    /\ warg' = None
    /\ last' = Get(warg)
    /\ Disturb
    /\ UNCHANGED <<cls, input_data, input_data_factory, num_outputs, seqHist, rpc>>

\* invalidate_output_metadata_cache() called on its own, line 84
Writer_L84 ==
    /\ cls = "InputData"
    /\ wpc = "idle"
    /\ output_metadata_cache' = None
    /\ last' = Call("invalidate_output_metadata_cache", <<>>, None)
    /\ Disturb
    /\ UNCHANGED <<cls, input_data, input_data_factory, num_outputs, seqHist,
                   rpc, wpc, warg>>

NextConc ==
    \/ \E d \in ConcInputs, f \in OptFactories :
          InputData__init__(d, f) /\ UNCHANGED thrVars
    \/ \E r \in ConcReaders : Reader_L40(r)
    \/ \E r \in ConcReaders : Reader_L44(r)
    \/ \E r \in ConcReaders : Reader_assert(r, "L59", "L60")
    \/ \E r \in ConcReaders : Reader_L60(r)
    \/ \E r \in ConcReaders : Reader_L61(r)
    \/ \E r \in ConcReaders : Reader_assert(r, "L66", "L67")
    \/ \E r \in ConcReaders : Reader_L67(r)
    \/ \E r \in ConcReaders : Reader_assert(r, "L74", "L75")
    \/ \E r \in ConcReaders : Reader_L75(r)
    \/ \E r \in ConcReaders : Reader_L45(r)
    \/ \E r \in ConcReaders : Reader_L46(r)
    \/ \E d \in ConcInputs : Writer_L88(d)
    \/ \E f \in OptFactories : Writer_L95(f)
    \/ Writer_L96
    \/ Writer_invalidate
    \/ Writer_L84

SpecConc == Init /\ [][NextConc]_vars

(***************************************************************************)
(* Properties of sequential use.                                           *)
(***************************************************************************)
IsRead == last.op = "aggregate_output_metadata"

\* C1: for an InputData under sequential calls, the metadata cache, whenever
\* populated, equals the aggregate recomputed from the bundle list currently
\* held, and a completed aggregate_output_metadata() has returned the
\* aggregate of the current list (all-unknown when there is none), never a
\* value cached for a list that was replaced.
C1_CacheMatchesCurrentData ==
    cls = "InputData" =>
        /\ output_metadata_cache # None =>
              /\ input_data # None
              /\ Get(output_metadata_cache) =
                    InputData_compute_output_metadata(Get(input_data))
        /\ IsRead =>
              last.ret = Some(IF input_data = None THEN AllUnknown
                              ELSE InputData_compute_output_metadata(Get(input_data)))

\* A read returned rows=20 for the list B = [10, 10] after update_input_data
\* replaced the one-bundle list the operator was built with (rows=10) and
\* discarded its cached aggregate.
C1_Witness ==
    /\ cls = "InputData"
    /\ num_outputs = Some(1)
    /\ droppedCache
    /\ input_data = Some(<<bKnown, bKnown>>)
    /\ IsRead
    /\ Get(last.ret).num_rows = Some(20)
    /\ output_metadata_cache = last.ret

\* No thread is inside a call.
NoCallInFlight == wpc = "idle" /\ \A r \in Readers : rpc[r] = "L40"

\* C2: with updates running concurrently with aggregate_output_metadata()
\* calls, no torn state is exposed: once no call is in flight, a populated
\* cache is the aggregate of the bundle list now held, and a read that began
\* after every update had completed returns the aggregate of the list now
\* held, never a value cached for a list that has been replaced.
C2_NoTornState ==
    cls = "InputData" =>
        /\ (NoCallInFlight /\ output_metadata_cache # None /\ input_data # None) =>
              Get(output_metadata_cache) =
                  InputData_compute_output_metadata(Get(input_data))
        /\ (IsRead /\ lastQuiet) =>
              /\ last.exc = None
              /\ last.ret = Some(IF input_data = None THEN AllUnknown
                                 ELSE InputData_compute_output_metadata(Get(input_data)))

\* C3: an InputData has exactly one of input_data and input_data_factory set
\* in every reachable state.
C3_ExactlyOneOfDataAndFactory ==
    cls = "InputData" => ((input_data = None) # (input_data_factory = None))

\* C4: an InputData that has never held a bundle list (built with only a
\* factory, no update_input_data with a list since) returns None from
\* output_data() and the all-unknown record from aggregate_output_metadata()
\* on every read.
C4_FactoryOnlyReadsUnknown ==
    (cls = "InputData" /\ ~everData) =>
        /\ last.op = "output_data" => last.ret = None
        /\ IsRead => last.ret = Some(AllUnknown)
        /\ output_metadata_cache = None

\* The second read in a row of a factory-only operator whose factory is f2.
C4_Witness ==
    /\ cls = "InputData"
    /\ ~everData
    /\ input_data_factory = Some("f2")
    /\ IsRead
    /\ readsInGen >= 2
    /\ last.ret = Some(AllUnknown)

\* The row counts the bundles of the current list report.
BundleRows == [i \in 1..Len(Get(input_data)) |-> RefBundle_num_rows(Get(input_data)[i])]

RECURSIVE TotalUpTo(_, _)
\* f[1] + ... + f[n], added from the last element down.
TotalUpTo(f, n) == IF n = 0 THEN 0 ELSE TotalUpTo(f, n - 1) + f[n]

\* C5: for both leaf kinds the aggregate num_rows is the sum of the bundles'
\* row counts when every bundle reports one, and unknown as soon as one
\* bundle's count is unknown, whatever the others report.
C5_NumRowsAllOrUnknown ==
    (cls # "none" /\ IsRead /\ input_data # None) =>
        Get(last.ret).num_rows =
            IF \E i \in DOMAIN BundleRows : BundleRows[i] = None
            THEN None
            ELSE Some(TotalUpTo([i \in DOMAIN BundleRows |-> Get(BundleRows[i])],
                                Len(BundleRows)))

\* Bundles reporting [10, None, 5] rows aggregate to unknown.
C5_Witness ==
    /\ cls = "AbstractFrom"
    /\ BundleRows = <<Some(10), None, Some(5)>>
    /\ IsRead
    /\ Get(last.ret).num_rows = None

\* The size_bytes values of the blocks of bundle b, in block order.
BlockSizes(b) == [j \in 1..Len(b.blocks) |-> b.blocks[j][2].size_bytes]

\* C6: for both leaf kinds the aggregate size_bytes is the sum of size_bytes
\* over every block of every bundle when all are known, and unknown as soon
\* as one block of any bundle has an unknown size_bytes.
C6_SizeBytesAllOrUnknown ==
    (cls # "none" /\ IsRead /\ input_data # None) =>
        LET data == Get(input_data) IN
        Get(last.ret).size_bytes =
            IF \E i \in 1..Len(data) : \E j \in 1..Len(data[i].blocks) :
                   BlockSizes(data[i])[j] = None
            THEN None
            ELSE Some(TotalUpTo(
                    [i \in 1..Len(data) |->
                        TotalUpTo([j \in 1..Len(data[i].blocks) |->
                                      Get(BlockSizes(data[i])[j])],
                                  Len(data[i].blocks))],
                    Len(data)))

\* A two-block bundle (100 + 50 bytes) followed by a one-block bundle (100).
C6_Witness ==
    /\ cls = "InputData"
    /\ input_data = Some(<<bNoRows, bKnown>>)
    /\ IsRead
    /\ Get(last.ret).size_bytes = Some(250)

\* C7: two aggregate_output_metadata() calls in succession return identical
\* results, and _compute_output_metadata runs at most once between two
\* consecutive invalidations, however many reads occur in between.
C7_ReadsIdenticalComputeOnce ==
    [][ /\ (IsRead /\ last'.op = "aggregate_output_metadata") => last'.ret = last.ret
        /\ computeCalls' <= 1 ]_vars

\* Three reads of a materialized operator in one cache generation, one
\* computation.
C7_Witness ==
    /\ cls # "none"
    /\ input_data # None
    /\ IsRead
    /\ readsInGen = MaxReads
    /\ computeCalls = 1

\* C8: the declared output count equals the number of bundles currently
\* held, or is unknown when no bundle list is held, in every reachable state.
C8_OutputCountMatchesBundles ==
    cls # "none" =>
        num_outputs = (IF input_data = None THEN None
                       ELSE Some(Len(Get(input_data))))

\* C9: constructing an InputData succeeds exactly when one of the two
\* arguments is non-None; with both or with neither it fails and no operator
\* is produced.
C9_InputDataConstruction ==
    last.op = "InputData.__init__" =>
        LET d == last.args[1]
            f == last.args[2] IN
        IF (d = None) # (f = None)
        THEN /\ last.exc = None
             /\ cls = "InputData"
             /\ input_data = d
             /\ input_data_factory = f
        ELSE /\ last.exc = Some("AssertionError")
             /\ cls = "none"

\* A construction with both a bundle list and a factory has failed.
C9_Witness ==
    /\ last.op = "InputData.__init__"
    /\ last.args[1] # None
    /\ last.args[2] # None
    /\ last.exc = Some("AssertionError")

\* C10: constructing an AbstractFrom fails whenever the number of block
\* references differs from the number of metadata records, and then no
\* operator (no bundle list paired from a truncated or padded input) exists;
\* with equal lengths it succeeds.
C10_AbstractFromShapeMismatch ==
    last.op = "AbstractFrom.__init__" =>
        IF Len(last.args[1]) # Len(last.args[2])
        THEN /\ last.exc = Some("AssertionError")
             /\ cls = "none"
             /\ input_data = None
        ELSE /\ last.exc = None
             /\ cls = "AbstractFrom"
             /\ Len(Get(input_data)) = Len(last.args[1])

\* 3 block references with 2 metadata records: the construction has failed.
C10_Witness ==
    /\ last.op = "AbstractFrom.__init__"
    /\ Len(last.args[1]) = 3
    /\ Len(last.args[2]) = 2
    /\ last.exc = Some("AssertionError")

\* C11: a constructed AbstractFrom holds exactly len(input_blocks) bundles,
\* the i-th one being the single pair (input_blocks[i], input_metadata[i])
\* with owns_blocks = False, and output_data() returns these bundles, one
\* per declared output, block handles in input order.
C11_OneBundlePerBlock ==
    /\ (last.op = "AbstractFrom.__init__" /\ last.exc = None) =>
          LET refs == last.args[1]
              mds  == last.args[2]
              out  == Get(input_data) IN
          /\ Len(out) = Len(refs)
          /\ \A i \in 1..Len(refs) :
                /\ Len(out[i].blocks) = 1
                /\ out[i].blocks[1][1] = refs[i]
                /\ out[i].blocks[1][2] = mds[i]
                /\ out[i].owns_blocks = FALSE
    /\ (cls = "AbstractFrom" /\ last.op = "output_data") =>
          /\ last.ret = input_data
          /\ Len(Get(last.ret)) = Get(num_outputs)
          /\ \A i \in 1..Len(Get(last.ret)) :
                /\ Len(Get(last.ret)[i].blocks) = 1
                /\ Get(last.ret)[i].blocks[1][1] = i
                /\ Get(last.ret)[i].owns_blocks = FALSE

\* output_data() of an operator built from three blocks with three different
\* metadata records.
C11_Witness ==
    /\ cls = "AbstractFrom"
    /\ last.op = "output_data"
    /\ Len(Get(last.ret)) = 3
    /\ Get(last.ret)[1].blocks[1][2] = mKnown
    /\ Get(last.ret)[2].blocks[1][2] = mNoRows
    /\ Get(last.ret)[3].blocks[1][2] = mNoSize

\* C12: output_data(), aggregate_output_metadata() and
\* invalidate_output_metadata_cache() never change input_data or
\* input_data_factory of an InputData, and output_data() changes no state of
\* the instance at all, the metadata cache included.
C12_ReadsLeaveFieldsAlone ==
    [][ cls = "InputData" =>
          /\ last'.op \in {"output_data", "aggregate_output_metadata",
                           "invalidate_output_metadata_cache"} =>
                 /\ input_data' = input_data
                 /\ input_data_factory' = input_data_factory
          /\ last'.op = "output_data" =>
                 UNCHANGED <<objVars, computeCalls, readsInGen>> ]_vars

\* output_data() has returned the list while the cache stayed populated.
C12_Witness ==
    /\ cls = "InputData"
    /\ last.op = "output_data"
    /\ last.ret = Some(<<bKnown, bNoSize>>)
    /\ output_metadata_cache # None
    /\ input_data_factory = None

\* C13: update_input_data_factory(f) stores f, leaves input_data alone, and
\* clears the cache when input_data is not None; when input_data is None it
\* leaves the cache and its generation untouched.  update_input_data(x)
\* stores x and clears the cache for every x, None included.
C13_UpdateInvalidation ==
    [][ cls = "InputData" =>
          /\ last'.op = "update_input_data_factory" =>
                 /\ input_data_factory' = last'.args[1]
                 /\ input_data' = input_data
                 /\ input_data # None => output_metadata_cache' = None
                 /\ input_data = None =>
                        UNCHANGED <<output_metadata_cache, computeCalls, readsInGen>>
          /\ last'.op = "update_input_data" =>
                 /\ input_data' = last'.args[1]
                 /\ input_data_factory' = input_data_factory
                 /\ output_metadata_cache' = None
                 /\ readsInGen' = 0 ]_vars

\* update_input_data_factory has just cleared a populated cache of an
\* instance that holds a list.
C13_Witness ==
    /\ cls = "InputData"
    /\ last.op = "update_input_data_factory"
    /\ input_data # None
    /\ input_data_factory = Some("f2")
    /\ droppedCache
    /\ output_metadata_cache = None

\* C15: an InputData holding the empty list answers output_data() with the
\* empty list, not None, and aggregates to num_rows = 0 and size_bytes = 0;
\* an InputData holding no list answers output_data() with None and
\* aggregates to unknown num_rows and size_bytes.
C15_UnknownIsNotEmpty ==
    cls = "InputData" =>
      /\ (input_data = Some(<<>>) /\ last.op = "output_data") =>
             /\ last.ret # None
             /\ Get(last.ret) = <<>>
      /\ (input_data = Some(<<>>) /\ IsRead) =>
             /\ Get(last.ret).num_rows = Some(0)
             /\ Get(last.ret).size_bytes = Some(0)
      /\ (input_data = None /\ last.op = "output_data") => last.ret = None
      /\ (input_data = None /\ IsRead) =>
             /\ Get(last.ret).num_rows = None
             /\ Get(last.ret).size_bytes = None

\* The empty list arrived through update_input_data on an instance built
\* from a factory, and output_data() has returned it.
C15_Witness ==
    /\ cls = "InputData"
    /\ num_outputs = None
    /\ input_data = Some(<<>>)
    /\ last.op = "output_data"
    /\ last.ret = Some(<<>>)

\* The position of block j of bundle i in the concatenated metadata list.
C16_Offset(data, i) == SumSeq([k \in 1..(i - 1) |-> Len(data[k].blocks)])

\* C16: the metadata list handed to the schema unifier is the concatenation
\* of the bundles' metadata lists, bundle order first and block order within
\* a bundle second, nothing left out, repeated or moved; for an AbstractFrom
\* it has one entry per bundle in bundle order; input_files and exec_stats
\* of every aggregate are unknown.
C16_UnifierSeesAllMetadataInOrder ==
    (IsRead /\ last.exc = None) =>
      LET agg == Get(last.ret) IN
      /\ agg.input_files = None
      /\ agg.exec_stats = None
      /\ input_data # None =>
           LET data == Get(input_data)
               md == agg.schema[2] IN
           /\ agg.schema[1] = "unified"
           /\ Len(md) = C16_Offset(data, Len(data) + 1)
           /\ \A i \in 1..Len(data) : \A j \in 1..Len(data[i].blocks) :
                 md[C16_Offset(data, i) + j] = data[i].blocks[j][2]
           /\ cls = "AbstractFrom" =>
                 md = [i \in 1..Len(data) |-> data[i].blocks[1][2]]

\* The aggregate of a two-block bundle followed by a one-block bundle.
C16_Witness ==
    /\ cls = "InputData"
    /\ IsRead
    /\ input_data = Some(<<bNoRows, bKnown>>)
    /\ Get(last.ret).schema = <<"unified", <<mKnown, mNoRows, mKnown>> >>

\* C18: in every state an InputData reaches through calls made one at a
\* time, input_data is None implies _output_metadata_cache is None.
C18_NoListNoCache ==
    (cls = "InputData" /\ input_data = None) => output_metadata_cache = None

\* update_input_data(None) dropped a populated cache, and the factory update
\* that followed skipped the invalidation.
C18_Witness ==
    /\ cls = "InputData"
    /\ input_data = None
    /\ everData
    /\ droppedCache
    /\ last.op = "update_input_data_factory"
    /\ output_metadata_cache = None

\* C19: no call on a constructed AbstractFrom changes its bundles or its
\* declared output count; output_data() always returns the bundles built by
\* the constructor, aggregate_output_metadata() always returns the aggregate
\* of those bundles, and a cache filled again after an invalidation holds
\* that same value.
C19_AbstractFromImmutable ==
    [][ cls = "AbstractFrom" =>
          /\ cls' = cls
          /\ input_data' = input_data
          /\ input_data_factory' = input_data_factory
          /\ num_outputs' = num_outputs
          /\ last'.op = "output_data" => last'.ret = input_data
          /\ last'.op = "aggregate_output_metadata" =>
                 last'.ret = Some(AbstractFrom_compute_output_metadata(Get(input_data)))
          /\ output_metadata_cache' # None =>
                 output_metadata_cache' =
                    Some(AbstractFrom_compute_output_metadata(Get(input_data))) ]_vars

\* A read has recomputed the aggregate after an invalidation dropped a
\* populated cache.
C19_Witness ==
    /\ cls = "AbstractFrom"
    /\ Len(Get(input_data)) = 2
    /\ droppedCache
    /\ IsRead
    /\ computeCalls = 1
    /\ output_metadata_cache = last.ret

(***************************************************************************)
(* Threads that only read: any reader of Readers calls                     *)
(* aggregate_output_metadata() again and again on one shared InputData or  *)
(* AbstractFrom, and nothing updates the instance.  The steps of a reader  *)
(* of an AbstractFrom are the lines of from_operators.py, labelled F<line>.*)
(***************************************************************************)
FromInputs ==
    { << <<>>, <<>> >>,
      << <<1>>, <<mKnown>> >>,
      << <<1, 2>>, <<mKnown, mNoRows>> >>,
      << <<1, 2>>, <<mNoSize, mZero>> >> }

\* The call of reader r on an AbstractFrom returns ret.
FromReturns(r, ret) ==
    /\ last' = Call("aggregate_output_metadata", <<r>>, ret)
    /\ lastQuiet' = rloc[r].quiet
    /\ rpc' = [rpc EXCEPT ![r] = "F46"]
    /\ rloc' = [rloc EXCEPT ![r] = NoLocals]

\* line 46: if self._output_metadata_cache is None
FromReader_L46(r) ==
    /\ cls = "AbstractFrom"
    /\ rpc[r] = "F46"
    /\ Goto(r, IF output_metadata_cache = None THEN "F61" ELSE "F48")
    /\ rloc' = [rloc EXCEPT ![r].quiet = (wpc = "idle")]
    /\ UNCHANGED <<objVars, histVars, wpc, warg, lastQuiet>>

\* line 61: all(bundle.num_rows() is not None for bundle in self._input_data)
FromReader_L61(r) ==
    /\ rpc[r] = "F61"
    /\ IF \A i \in 1..Len(Get(input_data)) :
             RefBundle_num_rows(Get(input_data)[i]) # None
       THEN Goto(r, "F62") /\ UNCHANGED rloc
       ELSE Goto(r, "F67") /\ rloc' = [rloc EXCEPT ![r].nr = None]
    /\ UNCHANGED <<objVars, histVars, wpc, warg, lastQuiet>>

\* line 62: return sum(bundle.num_rows() for bundle in self._input_data)
FromReader_L62(r) ==
    /\ rpc[r] = "F62"
    /\ Goto(r, "F67")
    /\ rloc' = [rloc EXCEPT ![r].nr = AbstractFrom_num_rows(Get(input_data))]
    /\ UNCHANGED <<objVars, histVars, wpc, warg, lastQuiet>>

\* lines 67-71: metadata = [m for bundle in self._input_data ...], then the sum
FromReader_L67(r) ==
    /\ rpc[r] = "F67"
    /\ Goto(r, "F74")
    /\ rloc' = [rloc EXCEPT ![r].sb = AbstractFrom_size_bytes(Get(input_data))]
    /\ UNCHANGED <<objVars, histVars, wpc, warg, lastQuiet>>

\* lines 74-75: metadata = [m for bundle in self._input_data ...], then unify
FromReader_L74(r) ==
    /\ rpc[r] = "F74"
    /\ Goto(r, "F47")
    /\ rloc' = [rloc EXCEPT ![r].sc = AbstractFrom_schema(Get(input_data))]
    /\ UNCHANGED <<objVars, histVars, wpc, warg, lastQuiet>>

\* line 47: self._output_metadata_cache = <the record of lines 52-58>
FromReader_L47(r) ==
    /\ rpc[r] = "F47"
    /\ output_metadata_cache' =
          Some(BlockMetadata(rloc[r].nr, rloc[r].sb, rloc[r].sc, None, None))
    /\ Goto(r, "F48")
    /\ UNCHANGED <<cls, input_data, input_data_factory, num_outputs, histVars,
                   rloc, wpc, warg, lastQuiet>>

\* line 48: return self._output_metadata_cache
FromReader_L48(r) ==
    /\ rpc[r] = "F48"
    /\ FromReturns(r, output_metadata_cache)
    /\ UNCHANGED <<objVars, seqHist, wpc, warg>>

NextReaders ==
    \/ \E d \in ConcInputs, f \in OptFactories :
          InputData__init__(d, f) /\ UNCHANGED thrVars
    \/ \E a \in FromInputs :
          /\ AbstractFrom__init__(a[1], a[2])
          /\ rpc' = [r \in Readers |-> "F46"]
          /\ UNCHANGED <<rloc, wpc, warg, lastQuiet>>
    \/ \E r \in Readers : Reader_L40(r)
    \/ \E r \in Readers : Reader_L44(r)
    \/ \E r \in Readers : Reader_assert(r, "L59", "L60")
    \/ \E r \in Readers : Reader_L60(r)
    \/ \E r \in Readers : Reader_L61(r)
    \/ \E r \in Readers : Reader_assert(r, "L66", "L67")
    \/ \E r \in Readers : Reader_L67(r)
    \/ \E r \in Readers : Reader_assert(r, "L74", "L75")
    \/ \E r \in Readers : Reader_L75(r)
    \/ \E r \in Readers : Reader_L45(r)
    \/ \E r \in Readers : Reader_L46(r)
    \/ \E r \in Readers : FromReader_L46(r)
    \/ \E r \in Readers : FromReader_L61(r)
    \/ \E r \in Readers : FromReader_L62(r)
    \/ \E r \in Readers : FromReader_L67(r)
    \/ \E r \in Readers : FromReader_L74(r)
    \/ \E r \in Readers : FromReader_L47(r)
    \/ \E r \in Readers : FromReader_L48(r)

SpecReaders == Init /\ [][NextReaders]_vars

\* The aggregate of the bundles the instance holds.
C14_Aggregate ==
    IF cls = "AbstractFrom"
    THEN AbstractFrom_compute_output_metadata(Get(input_data))
    ELSE IF input_data = None THEN AllUnknown
         ELSE InputData_compute_output_metadata(Get(input_data))

\* C14: with readers only, under every interleaving of their cache check,
\* computation and cache store, no call raises, every call returns the
\* aggregate of the instance's bundles, so a return equals the return before
\* it whichever reader made it, a populated cache holds that aggregate, and
\* when a call on an instance holding bundles returns the cache holds the
\* value returned.
C14_ConcurrentReadsAgree ==
    [][ cls' # "none" =>
          /\ output_metadata_cache' # None =>
                 Get(output_metadata_cache') = C14_Aggregate'
          /\ IsRead' =>
                 /\ last'.exc = None
                 /\ last'.ret = Some(C14_Aggregate')
                 /\ input_data' # None => output_metadata_cache' = last'.ret
                 /\ IsRead => last'.ret = last.ret ]_vars

\* Reader 1 has returned the cached aggregate while reader 2, which missed
\* the cache and computed the aggregate on its own, is about to store it
\* over the same value.
C14_Witness ==
    /\ cls # "none"
    /\ IsRead
    /\ last.args = <<1>>
    /\ output_metadata_cache = last.ret
    /\ rpc[2] \in {"L45", "F47"}
    /\ rloc[2].sc # None

\* C17: with update_input_data running beside aggregate_output_metadata(),
\* every record returned or cached is the aggregate of one single bundle
\* list (or the all-unknown record of an absent list): its num_rows,
\* size_bytes and schema never come from different lists.
C17_AggregateOfOneVersion ==
    cls = "InputData" =>
      /\ output_metadata_cache # None =>
            \E l \in ConcLists :
               Get(output_metadata_cache) = InputData_compute_output_metadata(l)
      /\ (IsRead /\ last.exc = None /\ last.ret # None) =>
            \/ Get(last.ret) = AllUnknown
            \/ \E l \in ConcLists :
                  Get(last.ret) = InputData_compute_output_metadata(l)

====
